---- MODULE Spec2Model ----
(***************************************************************************)
(* Model of the artwork gallery: the fetch gateway (api.ts, fetchArtworks)  *)
(* and the selection and pagination controller (the App component).        *)
(*                                                                         *)
(* One state of the model is one committed render of App: the values of    *)
(* its useState cells, the state of the useQuery observer, the requests    *)
(* in flight, and the position and locals of a running                     *)
(* performMultiPageSelection.  One action is one event handler run to its *)
(* next await, the effects that follow its render included.                 *)
(***************************************************************************)
EXTENDS Integers, Sequences, FiniteSets, TLC

\* ---------------------------------------------------------------- bounds

\* Pages of the remote collection in the controller specifications.
MaxPages == 3
\* Largest number a user types into the "select rows" input.
MaxN == 4
\* Largest total_pages of the remote collection in the pager specification.
MaxTotal == 13

\* ------------------------------------------------------ remote collection

\* Item identifiers the remote collection draws from.
Ids == 1 .. (MaxPages + 1)

Pages == 1 .. MaxPages

\* The remote collections the model is run against, page -> items in display
\* order: all ids distinct; one with an empty page between non-empty ones;
\* one where an id occurs on two pages.
DistinctCatalog == [q \in Pages |-> IF q = 1 THEN <<1, 2>> ELSE <<q + 1>>]

GapCatalog == [q \in Pages |-> IF q = 2 THEN <<>> ELSE <<q>>]

OverlapCatalog == [q \in Pages |-> <<q, (q % MaxPages) + 1>>]

Catalogs == {DistinctCatalog, GapCatalog, OverlapCatalog}

\* The remote collection of the pager specification: one item on every page.
PagerCatalog == [q \in 1 .. MaxTotal |-> <<1>>]

\* What the network can answer to one GET ?page=q.
Outcomes == {"ok", "http500", "network", "parse"}

\* ------------------------------------------------------------- text input

DigitChars == <<"0", "1", "2", "3", "4", "5", "6", "7", "8", "9">>

IsDigit(c) == \E d \in 1 .. 10 : DigitChars[d] = c

DigitVal(c) == (CHOOSE d \in 1 .. 10 : DigitChars[d] = c) - 1

\* The decimal text of a natural number, as the number input holds it.
RECURSIVE ToText(_)
ToText(n) == IF n < 10 THEN <<DigitChars[n + 1]>>
             ELSE ToText(n \div 10) \o <<DigitChars[(n % 10) + 1]>>

\* The value of the leading run of digits of s, acc being the value so far.
RECURSIVE DigitsValue(_, _)
DigitsValue(s, acc) ==
  IF s = <<>> \/ ~IsDigit(Head(s)) THEN acc
  ELSE DigitsValue(Tail(s), acc * 10 + DigitVal(Head(s)))

\* parseInt(s, 10): an optional sign, then the leading digits; NaN without one.
ParseInt(s) ==
  LET neg == s # <<>> /\ Head(s) = "-"
      body == IF s # <<>> /\ Head(s) \in {"-", "+"} THEN Tail(s) ELSE s
  IN IF body = <<>> \/ ~IsDigit(Head(body))
     THEN [nan |-> TRUE, val |-> 0]
     ELSE [nan |-> FALSE,
           val |-> IF neg THEN 0 - DigitsValue(body, 0) ELSE DigitsValue(body, 0)]

\* The texts the model types into the input.
InputTexts == {<<>>, <<"0">>, <<"-", "1">>} \cup {ToText(n) : n \in 1 .. MaxN}

\* ------------------------------------------------------------------ state

VARIABLES
  catalog,             \* remote: page -> items (fixed during a behaviour)
  remoteTotal,         \* remote: the total_pages it reports
  drifted,             \* history: the remote has changed its total_pages
  currentPage,         \* useState currentPage
  selectedArtworkIds,  \* useState selectedArtworkIds: id -> BOOLEAN, partial
  totalPages,          \* useState totalPages
  rowsToSelect,        \* useState rowsToSelect (text)
  isProcessingSelection,
  isDropdownOpen,
  query,               \* the useQuery observer's result for ['artworks', currentPage]
  inflight,            \* pages with a page-load request outstanding
  sel,                 \* the running performMultiPageSelection: position and locals
  last                 \* history: the operation that produced this state

progVars == <<currentPage, selectedArtworkIds, totalPages, rowsToSelect,
              isProcessingSelection, isDropdownOpen, query, inflight, sel>>

envVars == <<catalog, remoteTotal, drifted>>

vars == <<catalog, remoteTotal, drifted, currentPage, selectedArtworkIds, totalPages,
          rowsToSelect, isProcessingSelection, isDropdownOpen, query, inflight,
          sel, last>>

\* -------------------------------------------------------------- the query

\* status, data (apiResponse.data), total (apiResponse.pagination.total_pages),
\* error (its message) and failureCount of the query the observer is attached to.
PendingQuery ==
  [status |-> "pending", data |-> <<>>, total |-> 0, error |-> "none", failureCount |-> 0]

SuccessQuery(items, total) ==
  [status |-> "success", data |-> items, total |-> total, error |-> "none",
   failureCount |-> 0]

ErrorQuery(message, failures) ==
  [status |-> "error", data |-> <<>>, total |-> 0, error |-> message,
   failureCount |-> failures]

\* The retry option of the query client: failed page loads are not retried.
QueryRetry == 0

isLoading == query.status = "pending"

\* apiResponse?.data || []
currentPageArtworks == query.data

\* The items the remote holds for page q (none past its last page).
RemoteItems(q) == IF q \in DOMAIN catalog THEN catalog[q] ELSE <<>>

\* Mutant of FetchArtworks: response.ok is not looked at, so the body of a
\* non-success response is returned as a page.
FetchArtworksIgnoresStatus(pageNumber, outcome) ==
  IF outcome \in {"ok", "http500"}
  THEN [ok |-> TRUE, data |-> IF outcome = "ok" THEN RemoteItems(pageNumber) ELSE <<>>,
        total |-> remoteTotal, error |-> "none"]
  ELSE [ok |-> FALSE, data |-> <<>>, total |-> 0,
        error |-> IF outcome = "network" THEN "Failed to fetch" ELSE "Unexpected token"]

\* fetchArtworks(pageNumber) against one network outcome: the decoded body, or
\* the error it logs and rethrows.
FetchArtworks(pageNumber, outcome) ==
  IF outcome = "ok"
  THEN [ok |-> TRUE, data |-> RemoteItems(pageNumber), total |-> remoteTotal,
        error |-> "none"]
  ELSE [ok |-> FALSE, data |-> <<>>, total |-> 0,
        error |-> IF outcome = "http500" THEN "HTTP error! status: 500"
                  ELSE IF outcome = "network" THEN "Failed to fetch"
                  ELSE "Unexpected token"]

\* ------------------------------------------------------ derived selection

isArtworkSelected(artworkId) ==
  artworkId \in DOMAIN selectedArtworkIds /\ selectedArtworkIds[artworkId] = TRUE

ItemIds(items) == {items[i] : i \in 1 .. Len(items)}

areAllCurrentPageArtworksSelected ==
  IF Len(currentPageArtworks) = 0 THEN FALSE
  ELSE \A i \in 1 .. Len(currentPageArtworks) : isArtworkSelected(currentPageArtworks[i])

getCurrentPageSelectedCount ==
  IF Len(currentPageArtworks) = 0 THEN 0
  ELSE Cardinality({i \in 1 .. Len(currentPageArtworks) :
                      isArtworkSelected(currentPageArtworks[i])})

getTotalSelectedArtworkCount ==
  Cardinality({k \in DOMAIN selectedArtworkIds : selectedArtworkIds[k]})

\* { ...selection, [artworkId]: value }
SetKey(selection, artworkId, value) ==
  [k \in DOMAIN selection \cup {artworkId} |->
     IF k = artworkId THEN value ELSE selection[k]]

NoSelection == [k \in {} |-> TRUE]

\* ------------------------------------------------------------------- view

\* What App returns: the error message alone, the "no artworks" message alone,
\* the loading overlay alone, or the table with its controls.
ErrorView == query.status = "error"

EmptyView == ~ErrorView /\ ~isLoading /\ Len(currentPageArtworks) = 0

\* Mutant of OverlayView: the busy flag does not replace the page by the overlay.
OverlayViewLoadingOnly == ~ErrorView /\ ~EmptyView /\ isLoading

OverlayView == ~ErrorView /\ ~EmptyView /\ (isLoading \/ isProcessingSelection)

MainView == ~ErrorView /\ ~EmptyView /\ ~OverlayView

hasData == Len(currentPageArtworks) > 0

isFirstPage == currentPage = 1

isLastPage == currentPage = totalPages

PaginationShown == MainView /\ hasData /\ totalPages > 1

\* ------------------------------------------------------------------ pager

delta == 2

Max(a, b) == IF a >= b THEN a ELSE b

Min(a, b) == IF a <= b THEN a ELSE b

\* Mutant of GetVisiblePageNumbers: the leading ellipsis is decided with >=.
GetVisiblePageNumbersEarlyDots(cur, total) ==
  LET lo == Max(2, cur - delta)
      hi == Min(total - 1, cur + delta)
      range == IF hi >= lo THEN [i \in 1 .. (hi - lo + 1) |-> lo + i - 1] ELSE <<>>
      first == IF cur - delta >= 2 THEN <<1, -1>> ELSE <<1>>
      tail == IF cur + delta < total - 1 THEN <<-1, total>>
              ELSE IF total > 1 THEN <<total>> ELSE <<>>
  IN first \o range \o tail

\* getVisiblePageNumbers() for the given currentPage and totalPages; -1 is the
\* ellipsis marker.
GetVisiblePageNumbers(cur, total) ==
  LET lo == Max(2, cur - delta)
      hi == Min(total - 1, cur + delta)
      range == IF hi >= lo THEN [i \in 1 .. (hi - lo + 1) |-> lo + i - 1] ELSE <<>>
      first == IF cur - delta > 2 THEN <<1, -1>> ELSE <<1>>
      tail == IF cur + delta < total - 1 THEN <<-1, total>>
              ELSE IF total > 1 THEN <<total>> ELSE <<>>
  IN first \o range \o tail

getVisiblePageNumbers == GetVisiblePageNumbers(currentPage, totalPages)

\* ------------------------------------------------------------- navigation

Done(name, n, outcome) == last' = [op |-> name, arg |-> n, out |-> outcome]

\* setCurrentPage(n): a new value moves the observer to the query of page n,
\* which has no data and is fetched (one request per page at a time); the same
\* value changes nothing.
SetCurrentPage(n) ==
  IF n = currentPage
  THEN UNCHANGED <<currentPage, query, inflight>>
  ELSE /\ currentPage' = n
       /\ query' = PendingQuery
       /\ inflight' = inflight \cup {n}

goToFirstPage == SetCurrentPage(1)

goToLastPage == SetCurrentPage(totalPages)

\* Mutant of goToPage: the upper bound is off by one.
goToPagePastLast(pageNumber) ==
  IF pageNumber >= 1 /\ pageNumber <= totalPages + 1
  THEN SetCurrentPage(pageNumber)
  ELSE UNCHANGED <<currentPage, query, inflight>>

goToPage(pageNumber) ==
  IF pageNumber >= 1 /\ pageNumber <= totalPages
  THEN SetCurrentPage(pageNumber)
  ELSE UNCHANGED <<currentPage, query, inflight>>

NavFrame == UNCHANGED <<envVars, selectedArtworkIds, totalPages,
                        rowsToSelect, isProcessingSelection, isDropdownOpen, sel>>

ClickFirstPage ==
  /\ PaginationShown /\ ~isFirstPage
  /\ goToFirstPage
  /\ NavFrame /\ Done("first", 1, "none")

\* Mutant of ClickPrevPage: the button is not disabled on the first page.
ClickPrevPageAlwaysEnabled ==
  /\ PaginationShown
  /\ SetCurrentPage(currentPage - 1)
  /\ NavFrame /\ Done("prev", currentPage - 1, "none")

ClickPrevPage ==
  /\ PaginationShown /\ ~isFirstPage
  /\ SetCurrentPage(currentPage - 1)
  /\ NavFrame /\ Done("prev", currentPage - 1, "none")

\* Mutant of ClickNextPage: the selection is kept per page and reset on leaving.
ClickNextPageResetsSelection ==
  /\ PaginationShown /\ ~isLastPage
  /\ SetCurrentPage(currentPage + 1)
  /\ selectedArtworkIds' = NoSelection
  /\ UNCHANGED <<envVars, totalPages, rowsToSelect, isProcessingSelection,
                 isDropdownOpen, sel>>
  /\ Done("next", currentPage + 1, "none")

ClickNextPage ==
  /\ PaginationShown /\ ~isLastPage
  /\ SetCurrentPage(currentPage + 1)
  /\ NavFrame /\ Done("next", currentPage + 1, "none")

ClickLastPage ==
  /\ PaginationShown /\ ~isLastPage
  /\ goToLastPage
  /\ NavFrame /\ Done("last", totalPages, "none")

ClickPageNumber(n) ==
  /\ PaginationShown
  /\ \E i \in 1 .. Len(getVisiblePageNumbers) : getVisiblePageNumbers[i] = n
  /\ n # -1
  /\ goToPage(n)
  /\ NavFrame /\ Done("goToPage", n, "none")

\* goToPage called with any argument, whatever is rendered.
CallGoToPage(n) ==
  /\ goToPage(n)
  /\ NavFrame /\ Done("goToPage", n, "none")

\* -------------------------------------------------------------- page load

\* Mutant of LoadSuccess: totalPages is learned from the first response only.
LoadSuccessLearnsOnce ==
  /\ currentPage \in inflight /\ isLoading
  /\ LET r == FetchArtworks(currentPage, "ok")
     IN /\ query' = SuccessQuery(r.data, r.total)
        /\ totalPages' = IF totalPages = 0 THEN r.total ELSE totalPages
  /\ inflight' = inflight \ {currentPage}
  /\ UNCHANGED <<envVars, currentPage, selectedArtworkIds, rowsToSelect,
                 isProcessingSelection, isDropdownOpen, sel>>
  /\ Done("loadSuccess", currentPage, "ok")

\* The observer's query settles with the response to its request.  The effect
\* that follows the render copies a differing total_pages into totalPages.
LoadSuccess ==
  /\ currentPage \in inflight /\ isLoading
  /\ LET r == FetchArtworks(currentPage, "ok")
     IN /\ query' = SuccessQuery(r.data, r.total)
        /\ totalPages' = IF r.total # totalPages THEN r.total ELSE totalPages
  /\ inflight' = inflight \ {currentPage}
  /\ UNCHANGED <<envVars, currentPage, selectedArtworkIds, rowsToSelect,
                 isProcessingSelection, isDropdownOpen, sel>>
  /\ Done("loadSuccess", currentPage, "ok")

LoadFailure(outcome) ==
  /\ currentPage \in inflight /\ isLoading
  /\ outcome # "ok"
  /\ LET r == FetchArtworks(currentPage, outcome)
     IN IF query.failureCount < QueryRetry
        THEN /\ query' = [query EXCEPT !.failureCount = @ + 1]
             /\ inflight' = inflight
        ELSE /\ query' = ErrorQuery(r.error, query.failureCount + 1)
             /\ inflight' = inflight \ {currentPage}
  /\ UNCHANGED <<envVars, currentPage, selectedArtworkIds, totalPages,
                 rowsToSelect, isProcessingSelection, isDropdownOpen, sel>>
  /\ Done("loadFailure", currentPage, outcome)

\* Mutant of StaleLoadResolve: the query key lacks the page, so the response
\* to the earlier request settles the observer's query.
StaleLoadResolveDisplayed(q, outcome) ==
  /\ q \in inflight /\ q # currentPage
  /\ inflight' = inflight \ {q}
  /\ LET r == FetchArtworks(q, outcome)
     IN query' = IF r.ok THEN SuccessQuery(r.data, r.total) ELSE ErrorQuery(r.error, 1)
  /\ UNCHANGED <<envVars, currentPage, selectedArtworkIds, totalPages,
                 rowsToSelect, isProcessingSelection, isDropdownOpen, sel>>
  /\ Done("staleLoad", q, outcome)

\* The response to a request for a page the observer has left: its query has no
\* observer, so nothing rendered changes.
StaleLoadResolve(q, outcome) ==
  /\ q \in inflight /\ q # currentPage
  /\ inflight' = inflight \ {q}
  /\ UNCHANGED <<envVars, currentPage, selectedArtworkIds, totalPages,
                 rowsToSelect, isProcessingSelection, isDropdownOpen, query, sel>>
  /\ Done("staleLoad", q, outcome)

\* The remote collection starts to report another total_pages.
RemoteDrift(t) ==
  /\ t # remoteTotal
  /\ remoteTotal' = t
  /\ drifted' = TRUE
  /\ UNCHANGED <<catalog, progVars>>
  /\ Done("remoteDrift", t, "none")

\* -------------------------------------------------------------- selection

SelFrame == UNCHANGED <<envVars, currentPage, totalPages, rowsToSelect,
                        isProcessingSelection, isDropdownOpen, query, inflight, sel>>

\* History: whether the id was selected when the handler was called, and
\* whether the step before was toggle of the same id.
WasSelected(artworkId) ==
  IF last.op = "toggle" /\ last.arg = artworkId
  THEN (IF isArtworkSelected(artworkId) THEN "again-selected" ELSE "again-unselected")
  ELSE (IF isArtworkSelected(artworkId) THEN "selected" ELSE "unselected")

\* Mutant of toggleArtworkSelection: the new value is always true.
toggleAlwaysSelects(artworkId) ==
  selectedArtworkIds' = SetKey(selectedArtworkIds, artworkId, TRUE)

\* Mutant of toggleArtworkSelection: deselecting deletes the key.
toggleDeletesKey(artworkId) ==
  selectedArtworkIds' =
    IF isArtworkSelected(artworkId)
    THEN [k \in DOMAIN selectedArtworkIds \ {artworkId} |-> selectedArtworkIds[k]]
    ELSE SetKey(selectedArtworkIds, artworkId, TRUE)

toggleArtworkSelection(artworkId) ==
  selectedArtworkIds' =
    SetKey(selectedArtworkIds, artworkId, ~isArtworkSelected(artworkId))

\* The selection with every id of items set to value.
SetAll(selection, items, value) ==
  [k \in DOMAIN selection \cup ItemIds(items) |->
     IF k \in ItemIds(items) THEN value ELSE selection[k]]

\* Mutant of toggleAllCurrentPageArtworks: it selects whatever was selected.
toggleAllAlwaysSelects ==
  selectedArtworkIds' = SetAll(selectedArtworkIds, currentPageArtworks, TRUE)

toggleAllCurrentPageArtworks ==
  LET allCurrentlySelected == areAllCurrentPageArtworksSelected
  IN selectedArtworkIds' =
       SetAll(selectedArtworkIds, currentPageArtworks, ~allCurrentlySelected)

\* Mutant of clearAllSelections: only the current page is deselected.
clearCurrentPageOnly ==
  selectedArtworkIds' = SetAll(selectedArtworkIds, currentPageArtworks, FALSE)

clearAllSelections == selectedArtworkIds' = NoSelection

ClickRowCheckbox(artworkId) ==
  /\ MainView
  /\ artworkId \in ItemIds(currentPageArtworks)
  /\ toggleArtworkSelection(artworkId)
  /\ SelFrame /\ Done("toggle", artworkId, WasSelected(artworkId))

\* toggleArtworkSelection called with any id, whatever is rendered.
CallToggleArtworkSelection(artworkId) ==
  /\ toggleArtworkSelection(artworkId)
  /\ SelFrame /\ Done("toggle", artworkId, WasSelected(artworkId))

ClickSelectAllCheckbox ==
  /\ MainView
  /\ toggleAllCurrentPageArtworks
  /\ SelFrame /\ Done("toggleAll", currentPage, "none")

ClickClearAll ==
  /\ MainView
  /\ getTotalSelectedArtworkCount > 0
  /\ clearAllSelections
  /\ SelFrame /\ Done("clearAll", getTotalSelectedArtworkCount, "none")

\* toggleAllCurrentPageArtworks called whatever is rendered.
CallToggleAllCurrentPageArtworks ==
  /\ toggleAllCurrentPageArtworks
  /\ SelFrame /\ Done("toggleAll", currentPage, "none")

\* ----------------------------------------------------- the select-rows input

ClickTitleDropdown ==
  /\ MainView
  /\ isDropdownOpen' = ~isDropdownOpen
  /\ UNCHANGED <<envVars, currentPage, selectedArtworkIds, totalPages,
                 rowsToSelect, isProcessingSelection, query, inflight, sel>>
  /\ Done("dropdown", 0, "none")

TypeRowsToSelect(text) ==
  /\ MainView /\ isDropdownOpen
  /\ text # rowsToSelect
  /\ rowsToSelect' = text
  /\ UNCHANGED <<envVars, currentPage, selectedArtworkIds, totalPages,
                 isProcessingSelection, isDropdownOpen, query, inflight, sel>>
  /\ Done("type", 0, "none")

\* ------------------------------------------------ performMultiPageSelection

\* pc: "idle", "awaiting" (the fetch of sel.page is outstanding) or "finally"
\* (performMultiPageSelection has returned, the finally block has not run).
\* num, count, page, cur: numToSelect, selectedCount, pageToFetch and
\* currentSelections; total: the totalPages the closure holds.
\* History: start, pre and items (currentPage, selectedArtworkIds and
\* currentPageArtworks when it started), fetched (the pages requested, in
\* order), failed (the page whose fetch failed, 0 if none).
IdleSel ==
  [pc |-> "idle", num |-> 0, count |-> 0, page |-> 0, total |-> 0,
   cur |-> NoSelection, start |-> 0, pre |-> NoSelection, items |-> <<>>,
   fetched |-> <<>>, failed |-> 0]

\* Mutant of MarkItems: an item that is already selected is passed over without
\* being counted.
RECURSIVE MarkItemsSkipsSelected(_, _, _, _)
MarkItemsSkipsSelected(cur, count, items, num) ==
  IF items = <<>> \/ ~(count < num)
  THEN [cur |-> cur, count |-> count]
  ELSE IF Head(items) \in DOMAIN cur /\ cur[Head(items)] = TRUE
       THEN MarkItemsSkipsSelected(cur, count, Tail(items), num)
       ELSE MarkItemsSkipsSelected(SetKey(cur, Head(items), TRUE), count + 1,
                                   Tail(items), num)

\* Mutant of MarkItems: the loop has lost its limit and marks the whole page.
MarkItemsWholePage(cur, count, items, num) ==
  [cur |-> SetAll(cur, items, TRUE), count |-> count + Len(items)]

\* for (const artwork of items) { if (selectedCount < numToSelect) mark; else break }
RECURSIVE MarkItems(_, _, _, _)
MarkItems(cur, count, items, num) ==
  IF items = <<>> \/ ~(count < num)
  THEN [cur |-> cur, count |-> count]
  ELSE MarkItems(SetKey(cur, Head(items), TRUE), count + 1, Tail(items), num)

\* Mutant of MoreToFetch: the loop goes on although numToSelect are marked.
MoreToFetchIgnoresCount(count, num, page, total) == page < total

\* The condition of the while loop.
MoreToFetch(count, num, page, total) == count < num /\ page < total

\* From the top of the while loop, s holding the locals: request the next
\* page, or leave the loop and write the selection.
ContinueSelection(s) ==
  IF MoreToFetch(s.count, s.num, s.page, s.total)
  THEN /\ sel' = [s EXCEPT !.pc = "awaiting", !.page = s.page + 1,
                           !.fetched = Append(s.fetched, s.page + 1)]
       /\ UNCHANGED selectedArtworkIds
  ELSE /\ sel' = [s EXCEPT !.pc = "finally"]
       /\ selectedArtworkIds' = s.cur

performMultiPageSelection(numToSelect) ==
  LET m == MarkItems(selectedArtworkIds, 0, currentPageArtworks, numToSelect)
  IN ContinueSelection([IdleSel EXCEPT
       !.num = numToSelect, !.count = m.count, !.page = currentPage,
       !.total = totalPages, !.cur = m.cur, !.start = currentPage,
       !.pre = selectedArtworkIds, !.items = currentPageArtworks])

handleSelectRows ==
  LET num == ParseInt(rowsToSelect)
  IN IF num.nan \/ num.val <= 0
     THEN UNCHANGED <<isProcessingSelection, sel, selectedArtworkIds>>
     ELSE /\ isProcessingSelection' = TRUE
          /\ performMultiPageSelection(num.val)

\* The submit button (or Enter in the input), enabled as rendered.
SubmitSelectRows ==
  /\ MainView /\ isDropdownOpen
  /\ sel.pc = "idle"
  /\ rowsToSelect # <<>> /\ ~(ParseInt(rowsToSelect).val <= 0)
  /\ handleSelectRows
  /\ UNCHANGED <<envVars, currentPage, totalPages, rowsToSelect,
                 isDropdownOpen, query, inflight>>
  /\ Done("selectRows", ParseInt(rowsToSelect).val, "none")

SelectionFetchSuccess ==
  /\ sel.pc = "awaiting"
  /\ LET pageData == FetchArtworks(sel.page, "ok")
         m == MarkItems(sel.cur, sel.count, pageData.data, sel.num)
     IN ContinueSelection([sel EXCEPT !.cur = m.cur, !.count = m.count])
  /\ UNCHANGED <<envVars, currentPage, totalPages, rowsToSelect,
                 isProcessingSelection, isDropdownOpen, query, inflight>>
  /\ Done("selectionFetch", sel.page, "ok")

\* Mutant of SelectionFetchFailure: the error is not caught and becomes the
\* page's load error.
SelectionFetchFailurePropagates(outcome) ==
  /\ sel.pc = "awaiting"
  /\ outcome # "ok"
  /\ sel' = [sel EXCEPT !.pc = "finally", !.failed = sel.page]
  /\ selectedArtworkIds' = sel.cur
  /\ query' = ErrorQuery(FetchArtworks(sel.page, outcome).error, 1)
  /\ UNCHANGED <<envVars, currentPage, totalPages, rowsToSelect,
                 isProcessingSelection, isDropdownOpen, inflight>>
  /\ Done("selectionFetch", sel.page, outcome)

\* Mutant of SelectionFetchFailure: the failure rolls the selection back.
SelectionFetchFailureRollsBack(outcome) ==
  /\ sel.pc = "awaiting"
  /\ outcome # "ok"
  /\ sel' = [sel EXCEPT !.pc = "finally", !.failed = sel.page]
  /\ selectedArtworkIds' = sel.pre
  /\ UNCHANGED <<envVars, currentPage, totalPages, rowsToSelect,
                 isProcessingSelection, isDropdownOpen, query, inflight>>
  /\ Done("selectionFetch", sel.page, outcome)

\* catch: log and break.
SelectionFetchFailure(outcome) ==
  /\ sel.pc = "awaiting"
  /\ outcome # "ok"
  /\ ~FetchArtworks(sel.page, outcome).ok
  /\ sel' = [sel EXCEPT !.pc = "finally", !.failed = sel.page]
  /\ selectedArtworkIds' = sel.cur
  /\ UNCHANGED <<envVars, currentPage, totalPages, rowsToSelect,
                 isProcessingSelection, isDropdownOpen, query, inflight>>
  /\ Done("selectionFetch", sel.page, outcome)

\* Mutant of SelectRowsFinally: the pending input is not reset.
SelectRowsFinallyKeepsInput ==
  /\ sel.pc = "finally"
  /\ isProcessingSelection' = FALSE
  /\ isDropdownOpen' = FALSE
  /\ sel' = IdleSel
  /\ UNCHANGED <<envVars, currentPage, selectedArtworkIds, totalPages,
                 rowsToSelect, query, inflight>>
  /\ Done("selectRowsEnd", sel.num, "none")

\* The finally block of handleSelectRows.
SelectRowsFinally ==
  /\ sel.pc = "finally"
  /\ isProcessingSelection' = FALSE
  /\ rowsToSelect' = <<>>
  /\ isDropdownOpen' = FALSE
  /\ sel' = IdleSel
  /\ UNCHANGED <<envVars, currentPage, selectedArtworkIds, totalPages,
                 query, inflight>>
  /\ Done("selectRowsEnd", sel.num, "none")

\* --------------------------------------------------------- specifications

\* App is mounted: page 1 is being fetched, nothing is selected.
StartState ==
  /\ currentPage = 1
  /\ selectedArtworkIds = NoSelection
  /\ totalPages = 0
  /\ rowsToSelect = <<>>
  /\ isProcessingSelection = FALSE
  /\ isDropdownOpen = FALSE
  /\ query = PendingQuery
  /\ inflight = {1}
  /\ sel = IdleSel
  /\ last = [op |-> "mount", arg |-> 0, out |-> "none"]

Init ==
  /\ catalog \in Catalogs
  /\ remoteTotal = MaxPages
  /\ drifted = FALSE
  /\ StartState

\* What the rendered controls and the network can do.
Next ==
  \/ LoadSuccess
  \/ \E outcome \in Outcomes : LoadFailure(outcome)
  \/ ClickFirstPage
  \/ ClickPrevPage
  \/ ClickNextPage
  \/ ClickLastPage
  \/ \E n \in 1 .. MaxPages : ClickPageNumber(n)
  \/ \E artworkId \in Ids : ClickRowCheckbox(artworkId)
  \/ ClickSelectAllCheckbox
  \/ ClickClearAll
  \/ ClickTitleDropdown
  \/ \E text \in InputTexts : TypeRowsToSelect(text)
  \/ SubmitSelectRows
  \/ SelectionFetchSuccess
  \/ \E outcome \in Outcomes : SelectionFetchFailure(outcome)
  \/ SelectRowsFinally

Spec == Init /\ [][Next]_vars

\* Browsing and selectFirstN against a remote collection whose reported
\* total_pages changes.
DriftNext ==
  \/ LoadSuccess
  \/ \E outcome \in Outcomes : LoadFailure(outcome)
  \/ ClickFirstPage
  \/ ClickPrevPage
  \/ ClickNextPage
  \/ ClickLastPage
  \/ \E n \in 1 .. MaxPages : ClickPageNumber(n)
  \/ ClickTitleDropdown
  \/ \E text \in InputTexts : TypeRowsToSelect(text)
  \/ SubmitSelectRows
  \/ SelectionFetchSuccess
  \/ \E outcome \in Outcomes : SelectionFetchFailure(outcome)
  \/ SelectRowsFinally
  \/ \E t \in 1 .. MaxPages : RemoteDrift(t)

DriftInit ==
  /\ catalog = DistinctCatalog
  /\ remoteTotal = MaxPages
  /\ drifted = FALSE
  /\ StartState

DriftSpec == DriftInit /\ [][DriftNext]_vars

\* The navigation and selection handlers called with any argument and in any
\* state, rendered or not, with the page loads they start and the responses
\* that arrive for pages the observer has left.
ApiNext ==
  \/ LoadSuccess
  \/ \E outcome \in Outcomes : LoadFailure(outcome)
  \/ \E q \in Pages, outcome \in Outcomes : StaleLoadResolve(q, outcome)
  \/ \E n \in 0 .. (MaxPages + 1) : CallGoToPage(n)
  \/ \E artworkId \in Ids : ClickRowCheckbox(artworkId)
  \/ CallToggleAllCurrentPageArtworks

ApiSpec == Init /\ [][ApiNext]_vars

\* toggleArtworkSelection called with any id in any state, rendered or not,
\* while the pages are browsed.
ToggleNext ==
  \/ LoadSuccess
  \/ \E outcome \in Outcomes : LoadFailure(outcome)
  \/ \E n \in 1 .. MaxPages : ClickPageNumber(n)
  \/ ClickSelectAllCheckbox
  \/ \E artworkId \in Ids : CallToggleArtworkSelection(artworkId)

ToggleSpec == Init /\ [][ToggleNext]_vars

\* The pager alone: a collection of up to MaxTotal pages, browsed.
PagerInit ==
  /\ catalog = PagerCatalog
  /\ remoteTotal \in 1 .. MaxTotal
  /\ drifted = FALSE
  /\ StartState

PagerNext ==
  \/ LoadSuccess
  \/ ClickFirstPage
  \/ ClickPrevPage
  \/ ClickNextPage
  \/ ClickLastPage
  \/ \E n \in 1 .. MaxTotal : ClickPageNumber(n)

PagerSpec == PagerInit /\ [][PagerNext]_vars

\* Every fetch the selection waits for resolves or fails, and the finally
\* block runs once performMultiPageSelection has returned.
FairSpec ==
  /\ Spec
  /\ WF_vars(SelectionFetchSuccess \/ \E outcome \in Outcomes : SelectionFetchFailure(outcome))
  /\ WF_vars(SelectRowsFinally)

\* ------------------------------------------------- vocabulary of the claims

SelectedSet(selection) == {k \in DOMAIN selection : selection[k] = TRUE}

\* The items of pages from .. to of the remote collection, in order.
RECURSIVE PagesItems(_, _)
PagesItems(from, to) ==
  IF from > to THEN <<>> ELSE RemoteItems(from) \o PagesItems(from + 1, to)

Distinct(items) ==
  \A i, j \in 1 .. Len(items) : i # j => items[i] # items[j]

FirstIds(items, k) == {items[i] : i \in 1 .. Min(k, Len(items))}

\* The selection has returned without a failed fetch.
SelectionCompleted == sel.pc = "finally" /\ sel.failed = 0

\* C1: A being the items of the page the selection started on followed by the
\* items of the later pages up to totalPages, with nothing selected beforehand,
\* all ids of A distinct and no fetch failing, a completed selectFirstN(n) has
\* selected exactly the first min(n, |A|) items of A, and the page load is not
\* Failed.
C1_SelectsFirstN ==
  LET A == sel.items \o PagesItems(sel.start + 1, sel.total)
      k == Min(sel.num, Len(A))
  IN (SelectionCompleted /\ SelectedSet(sel.pre) = {} /\ Distinct(A))
       => /\ SelectedSet(selectedArtworkIds) = FirstIds(A, k)
          /\ Cardinality(SelectedSet(selectedArtworkIds)) = k
          /\ query.status # "error"

\* C1 witness: a selection that asked for more items than the pages hold has
\* completed after fetching later pages.
C1_Witness ==
  LET A == sel.items \o PagesItems(sel.start + 1, sel.total)
  IN /\ SelectionCompleted /\ SelectedSet(sel.pre) = {} /\ Distinct(A)
     /\ Len(A) < sel.num
     /\ Len(sel.fetched) >= 2
     /\ Cardinality(SelectedSet(selectedArtworkIds)) = Len(A)

\* C2: when the fetch of page q fails during selectFirstN, q is the last page
\* requested, and the selection then holds every id selected before plus every
\* item of the starting page and of the pages fetched before q, nothing rolled
\* back; with 12 + 1 items before the failing page that is 13 ids.
C2_FailureKeepsPartial ==
  LET B == sel.items \o PagesItems(sel.start + 1, sel.failed - 1)
  IN sel.failed # 0
       => /\ sel.pc = "finally"
          /\ sel.failed > sel.start
          /\ sel.fetched # <<>>
          /\ sel.fetched[Len(sel.fetched)] = sel.failed
          /\ \A i \in 1 .. Len(sel.fetched) : sel.fetched[i] <= sel.failed
          /\ SelectedSet(selectedArtworkIds) = SelectedSet(sel.pre) \cup ItemIds(B)
          /\ DOMAIN sel.pre \subseteq DOMAIN selectedArtworkIds

\* C2 witness: the second fetch failed after ids were selected beforehand and
\* marked from the starting page and the page before the failing one.
C2_Witness ==
  /\ sel.failed = sel.start + 2
  /\ last.op = "selectionFetch" /\ last.out = "http500"
  /\ SelectedSet(sel.pre) # {}
  /\ ~(SelectedSet(sel.pre) \subseteq ItemIds(sel.items \o PagesItems(sel.start + 1, sel.failed - 1)))
  /\ PagesItems(sel.start + 1, sel.failed - 1) # <<>>
  /\ Cardinality(SelectedSet(selectedArtworkIds)) > Cardinality(SelectedSet(sel.pre))

\* C3, safety: the busy flag is true exactly while a selectFirstN runs.
C3_BusyWhileRunning == isProcessingSelection <=> (sel.pc # "idle")

\* C3, safety: the step that ends a selectFirstN clears the busy flag and
\* empties the pending input.
C3_EndClears ==
  (sel.pc # "idle" /\ sel'.pc = "idle")
    => (~isProcessingSelection' /\ rowsToSelect' = <<>>)

\* C3: the busy flag is true from the start of a selectFirstN to its end, is
\* false and the pending input empty when it ends, and, every fetch resolving
\* or failing, it does not stay true forever.
C3_BusyFlag ==
  /\ []C3_BusyWhileRunning
  /\ [][C3_EndClears]_vars
  /\ (isProcessingSelection ~> ~isProcessingSelection)

\* C3 witness: a selectFirstN that selected something has ended.
C3_Witness ==
  /\ last.op = "selectRowsEnd"
  /\ ~isProcessingSelection /\ rowsToSelect = <<>>
  /\ selectedArtworkIds # NoSelection

\* C4: selectFirstN started on page p requests pages p+1, p+2, ... in that
\* order, none past totalPages; the page it waits for is the last one
\* requested, and it waits for a page only while fewer than n items are marked.
C4_ForwardFetches ==
  /\ \A i \in 1 .. Len(sel.fetched) :
       /\ sel.fetched[i] = sel.start + i
       /\ sel.fetched[i] <= sel.total
  /\ sel.pc = "awaiting"
       => /\ sel.count < sel.num
          /\ sel.fetched # <<>>
          /\ sel.page = sel.fetched[Len(sel.fetched)]
  /\ sel.pc = "idle" => sel.fetched = <<>>

\* C4 witness: the selection waits for its second page.
C4_Witness ==
  /\ sel.pc = "awaiting"
  /\ sel.fetched = <<sel.start + 1, sel.start + 2>>
  /\ sel.count > 0

\* The message fetchArtworks raises for a network outcome.
MessageOf(outcome) ==
  IF outcome = "http500" THEN "HTTP error! status: 500"
  ELSE IF outcome = "network" THEN "Failed to fetch"
  ELSE "Unexpected token"

C6_FailedCanNavigate ==
  (ErrorView /\ totalPages > 1)
    => /\ query.error # "none"
       /\ currentPageArtworks = <<>>
       /\ ENABLED (\/ ClickFirstPage
                   \/ ClickPrevPage
                   \/ ClickNextPage
                   \/ ClickLastPage
                   \/ \E n \in 1 .. MaxPages : ClickPageNumber(n))

\* A step of goToPage(n), n being last'.arg.
C7_GoToPageStep ==
  last'.op = "goToPage"
    => IF last'.arg >= 1 /\ last'.arg <= totalPages
       THEN /\ currentPage' = last'.arg
            /\ UNCHANGED <<envVars, selectedArtworkIds, totalPages, rowsToSelect,
                           isProcessingSelection, isDropdownOpen, sel>>
       ELSE UNCHANGED <<envVars, progVars>>

\* C7: goToPage(n) makes n the current page when 1 <= n <= totalPages and
\* leaves every state variable as it is for any other n.
C7_GoToPage == [][C7_GoToPageStep]_vars

\* C7 witness: goToPage(totalPages + 1) has been called with totalPages known.
C7_Witness ==
  /\ last.op = "goToPage" /\ last.arg = totalPages + 1
  /\ totalPages > 0
  /\ currentPage <= totalPages

\* The page numbers of a pager window, the ellipsis markers left out.
PageNumbersOf(window) == SelectSeq(window, LAMBDA x : x # -1)

Abs(x) == IF x < 0 THEN 0 - x ELSE x

\* The shape of the pager window of page cur of total.
C8_WindowShape(cur, total) ==
  LET w == GetVisiblePageNumbers(cur, total)
      nums == PageNumbersOf(w)
  IN /\ nums # <<>>
     /\ nums[1] = 1 /\ nums[Len(nums)] = total
     /\ \A i \in 1 .. (Len(nums) - 1) : nums[i] < nums[i + 1]
     /\ ItemIds(nums) = {1, total} \cup {q \in 1 .. total : Abs(q - cur) <= delta}
     /\ w[1] # -1 /\ w[Len(w)] # -1
     /\ \A i \in 1 .. (Len(w) - 1) :
          /\ (w[i] # -1 /\ w[i + 1] # -1) => w[i + 1] = w[i] + 1
          /\ w[i] = -1 => (w[i + 1] # -1 /\ w[i + 1] > w[i - 1] + 1)

\* C8: for totalPages >= 2 and currentPage in 1..totalPages the pager window
\* lists, strictly ascending, page 1, the pages within 2 of currentPage and the
\* last page, with an ellipsis marker exactly where pages are skipped; page 1
\* of 10 gives 1 2 3 .. 10 and page 5 of 10 gives 1 .. 3 4 5 6 7 .. 10.
C8_VisibleWindow ==
  (totalPages >= 2 /\ currentPage \in 1 .. totalPages)
    => /\ C8_WindowShape(currentPage, totalPages)
       /\ (totalPages = 10 /\ currentPage = 1)
            => getVisiblePageNumbers = <<1, 2, 3, -1, 10>>
       /\ (totalPages = 10 /\ currentPage = 5)
            => getVisiblePageNumbers = <<1, -1, 3, 4, 5, 6, 7, -1, 10>>

\* C8 witness: page 5 of 10 is shown with its pager.
C8_Witness ==
  /\ totalPages = 10 /\ currentPage = 5
  /\ PaginationShown
  /\ getVisiblePageNumbers = <<1, -1, 3, 4, 5, 6, 7, -1, 10>>

\* C9: the pager window is <<1>> for totalPages = 1 and empty for
\* totalPages = 0.
C9_DegenerateWindow ==
  /\ totalPages = 1 => getVisiblePageNumbers = <<1>>
  /\ totalPages = 0 => getVisiblePageNumbers = <<>>

\* A step of toggleAllCurrentPage.
C10_ToggleAllStep ==
  last'.op = "toggleAll"
    => /\ (Len(currentPageArtworks) > 0 /\ ~areAllCurrentPageArtworksSelected)
            => areAllCurrentPageArtworksSelected'
       /\ (Len(currentPageArtworks) > 0 /\ areAllCurrentPageArtworksSelected)
            => \A id \in ItemIds(currentPageArtworks) : ~(isArtworkSelected(id))'
       /\ Len(currentPageArtworks) = 0
            => (~areAllCurrentPageArtworksSelected /\ ~areAllCurrentPageArtworksSelected')

\* C10: on a non-empty page toggleAllCurrentPage makes every item of the page
\* selected when not all were, and every item deselected when all were; on an
\* empty page allCurrentPageSelected is false before and after.
C10_ToggleAll == [][C10_ToggleAllStep]_vars

\* C10 witness: toggleAllCurrentPage has deselected a page of two items while
\* an item of another page stays selected.
C10_Witness ==
  /\ last.op = "toggleAll"
  /\ Len(currentPageArtworks) = 2
  /\ \A id \in ItemIds(currentPageArtworks) :
       id \in DOMAIN selectedArtworkIds /\ ~isArtworkSelected(id)
  /\ SelectedSet(selectedArtworkIds) # {}

\* A step of toggle(id), id being last'.arg: every other id keeps its value,
\* and when the step before was toggle of the same id, the id is back at the
\* value it had before that step.
C11_ToggleStep ==
  last'.op = "toggle"
    => /\ \A other \in Ids \ {last'.arg} :
            (isArtworkSelected(other))' = isArtworkSelected(other)
       /\ (last'.arg \in SelectedSet(selectedArtworkIds'))
            = (last'.arg \notin SelectedSet(selectedArtworkIds))
       /\ (last.op = "toggle" /\ last.arg = last'.arg)
            => /\ last'.out \in {"again-selected", "again-unselected"}
               /\ (last'.arg \in SelectedSet(selectedArtworkIds'))
                    = (last.out \in {"selected", "again-selected"})

\* C11: toggle(id) applied twice in succession returns isSelected(id) to its
\* original value, an absent id counting as false, and leaves isSelected of
\* every other id unchanged.
C11_ToggleInverse == [][C11_ToggleStep]_vars

\* C11 witness: an id that is not on the current page was toggled twice in
\* succession and is unselected again, another id being selected.
C11_Witness ==
  /\ last.op = "toggle" /\ last.out = "again-selected"
  /\ selectedArtworkIds[last.arg] = FALSE
  /\ last.arg \notin ItemIds(currentPageArtworks)
  /\ SelectedSet(selectedArtworkIds) # {}

\* C12: after clearAll the total selected count is 0 and no id is selected,
\* whatever page it was selected on; and an id absent from the mapping is
\* never selected.
C12_ClearAll ==
  /\ last.op = "clearAll"
       => /\ getTotalSelectedArtworkCount = 0
          /\ \A id \in Ids : ~isArtworkSelected(id)
  /\ \A id \in Ids \ DOMAIN selectedArtworkIds : ~isArtworkSelected(id)

\* C12 witness: clearAll has run with more ids selected than the current page
\* shows, so some were selected on other pages.
C12_Witness ==
  /\ last.op = "clearAll"
  /\ last.arg > Len(currentPageArtworks)
  /\ currentPage > 1
  /\ getTotalSelectedArtworkCount = 0

\* The items shown in Ready are those of the response for the current page.
C13_ReadyShowsCurrent ==
  query.status = "success" => currentPageArtworks = RemoteItems(currentPage)

\* The response to a request for an earlier currentPage changes neither what
\* is displayed nor the load state.
C13_StaleStep ==
  last'.op = "staleLoad"
    => /\ last'.arg # currentPage
       /\ UNCHANGED <<query, currentPage, totalPages, selectedArtworkIds>>

\* C13: whenever the page load is Ready the items displayed are those returned
\* for the current value of currentPage; a response to a request for an
\* earlier value that resolves after the page changed is never displayed and
\* does not change the load state.
C13_LatestPageShown == []C13_ReadyShowsCurrent /\ [][C13_StaleStep]_vars

\* C13 witness: the current page is Ready and the response for a page left
\* earlier has just arrived.
C13_Witness ==
  /\ last.op = "staleLoad" /\ last.out = "ok"
  /\ query.status = "success"
  /\ currentPageArtworks # RemoteItems(last.arg)

\* The steps of selectFirstN: its start, the resolution of a fetch, its end.
SelectionOps == {"selectRows", "selectionFetch", "selectRowsEnd"}

\* A step of selectFirstN leaves the page load, currentPage and totalPages.
C14_SelectionStep ==
  last'.op \in SelectionOps
    => UNCHANGED <<query, inflight, currentPage, totalPages, envVars>>

\* C14: a fetch failure inside selectFirstN never becomes a page-load error:
\* over the whole operation, failed fetch or not, the page-load state, the
\* displayed items, currentPage and totalPages stay as they are.
C14_SelectionLeavesPageLoad ==
  /\ [][C14_SelectionStep]_vars
  /\ [](sel.pc # "idle" => (query.status = "success" /\ query.error = "none"))

\* C14 witness: a fetch of selectFirstN has failed and the page is still Ready
\* with its items.
C14_Witness ==
  /\ last.op = "selectionFetch" /\ last.out = "http500"
  /\ sel.failed # 0
  /\ query.status = "success"
  /\ currentPageArtworks = RemoteItems(currentPage)
  /\ currentPageArtworks # <<>>

\* The navigation actions and the completions of a page load.
NavigationOps == {"first", "prev", "next", "last", "goToPage", "loadSuccess", "loadFailure"}

C15_NavigationStep ==
  last'.op \in NavigationOps => selectedArtworkIds' = selectedArtworkIds

\* C15: every navigation action and every page-load completion leaves the
\* selection mapping unchanged, so an id selected on one page is still selected
\* after navigating away and back.
C15_NavigationKeepsSelection == [][C15_NavigationStep]_vars

\* C15 witness: page 1 has been loaded again by navigation while an id of its
\* items and an id of another page are selected.
C15_Witness ==
  /\ last.op = "loadSuccess"
  /\ currentPage = 1 /\ totalPages > 1
  /\ \E id \in ItemIds(currentPageArtworks) : isArtworkSelected(id)
  /\ \E id \in Ids \ ItemIds(currentPageArtworks) : isArtworkSelected(id)

C16_KeysStep ==
  last'.op # "clearAll" => DOMAIN selectedArtworkIds \subseteq DOMAIN selectedArtworkIds'

\* C16: the set of keys of the selection mapping never shrinks except by
\* clearAll: every id that was a key before a step other than clearAll is
\* still a key after it.
C16_KeysNeverShrink == [][C16_KeysStep]_vars

\* C16 witness: a toggle has deselected an id, and the id is still a key of the
\* mapping, now with the value false.
C16_Witness ==
  /\ last.op = "toggle"
  /\ last.arg \in DOMAIN selectedArtworkIds
  /\ ~selectedArtworkIds[last.arg]
  /\ ~isArtworkSelected(last.arg)

\* totalPages changes only in the step that applies a page-load response, to
\* the total_pages of that response, which differs from the stored value.
C17_TotalPagesStep ==
  /\ totalPages' # totalPages
       => /\ last'.op = "loadSuccess"
          /\ query'.status = "success"
          /\ totalPages' = query'.total
  /\ last'.op \in SelectionOps => totalPages' = totalPages

\* C17: totalPages is 0 until the first successful page load; once a page-load
\* response has been applied totalPages equals its total_pages, and it changes
\* afterwards only when a later page-load response carries a different value;
\* the pages fetched inside the multi-page selection never change it.
C17_TotalPagesLearned ==
  /\ totalPages = 0
  /\ [][C17_TotalPagesStep]_vars
  /\ [](last.op = "mount" => totalPages = 0)
  /\ [](query.status = "success" => totalPages = query.total)

\* C17 witness: a page load has applied a total_pages that differs from the
\* first one, and a page fetched afterwards inside the multi-page selection
\* carried yet another total_pages, which was not applied.
C17_Witness ==
  /\ last.op = "selectionFetch" /\ last.out = "ok"
  /\ drifted
  /\ query.status = "success"
  /\ totalPages = query.total
  /\ totalPages # MaxPages
  /\ remoteTotal # totalPages

\* The items the selection has consumed: those of its starting page, then those
\* of the later pages it has received.
ConsumedItems ==
  sel.items \o PagesItems(sel.start + 1,
                          IF sel.failed # 0 THEN sel.failed - 1 ELSE sel.total)

\* The mapping pre with every id of ids set to true.
WithMarked(pre, ids) ==
  [k \in DOMAIN pre \cup ids |-> IF k \in ids THEN TRUE ELSE pre[k]]

\* While the busy flag is true the only steps are the completions of fetches
\* and the end of the selection.
C18_BusyStep ==
  isProcessingSelection
    => last'.op \in {"selectionFetch", "selectRowsEnd", "staleLoad"}

\* C18: no update to the selection is lost to selectFirstN: no toggle,
\* toggle-all, clear-all, navigation or second selectFirstN is taken while the
\* busy flag is true, the mapping stays the one copied at the start while pages
\* are awaited, and the mapping written at the end is that copy with the marked
\* ids set to true.
C18_NoLostUpdate ==
  /\ [][C18_BusyStep]_vars
  /\ [](sel.pc = "awaiting" => (isProcessingSelection /\ selectedArtworkIds = sel.pre))
  /\ [](sel.pc = "finally"
          => selectedArtworkIds = WithMarked(sel.pre, FirstIds(ConsumedItems, sel.num)))

\* C18 witness: a selection that fetched a later page has written its mapping;
\* ids toggled before it started, selected and deselected, keep their values.
C18_Witness ==
  /\ sel.pc = "finally"
  /\ Len(sel.fetched) >= 1
  /\ last.op = "selectionFetch"
  /\ selectedArtworkIds # sel.pre
  /\ \E k \in DOMAIN sel.pre : sel.pre[k] /\ k \notin ItemIds(ConsumedItems)
  /\ \E k \in DOMAIN sel.pre : ~sel.pre[k] /\ ~selectedArtworkIds[k]

\* The items selectFirstN can reach: those of its starting page, then those of
\* the later pages up to totalPages.
ForwardItems == sel.items \o PagesItems(sel.start + 1, sel.total)

\* C19: selectFirstN(n) counts items that are already selected toward n: with
\* the forward items distinct and no fetch failing it marks the first
\* min(n, available) of them whether or not they were selected, so with k of
\* those selected beforehand the newly selected ids number min(n, available) - k;
\* and no id selected before the operation is deselected by it.
C19_CountsAlreadySelected ==
  LET m == Min(sel.num, Len(ForwardItems))
      first == FirstIds(ForwardItems, m)
      before == SelectedSet(sel.pre)
      after == SelectedSet(selectedArtworkIds)
      k == Cardinality(first \cap before)
  IN /\ (SelectionCompleted /\ Distinct(ForwardItems))
          => /\ after = before \cup first
             /\ Cardinality(after \ before) = m - k
     /\ sel.pc # "idle" => before \subseteq after

\* C19 witness: a completed selectFirstN(n) with more than n items ahead, some
\* of the first n selected beforehand: fewer than n ids are newly selected and
\* an unselected item is left beyond them.
C19_Witness ==
  LET first == FirstIds(ForwardItems, sel.num)
      before == SelectedSet(sel.pre)
      after == SelectedSet(selectedArtworkIds)
  IN /\ SelectionCompleted /\ Distinct(ForwardItems)
     /\ sel.num < Len(ForwardItems)
     /\ Len(sel.fetched) >= 1
     /\ first \cap before # {}
     /\ Cardinality(after \ before) < sel.num
     /\ ItemIds(ForwardItems) \ after # {}

\* C20: in every state reached through the navigation the display offers,
\* currentPage >= 1; and as long as the remote total_pages has not changed,
\* currentPage <= totalPages whenever totalPages > 0.
C20_CurrentPageInRange ==
  /\ currentPage >= 1
  /\ (totalPages > 0 /\ ~drifted) => currentPage <= totalPages

\* C20 witness: the last page has been reached and left again by the pager's
\* buttons, the remote total_pages never having changed.
C20_Witness ==
  /\ ~drifted
  /\ last.op = "prev"
  /\ totalPages = MaxPages
  /\ currentPage = totalPages - 1

\* With the remote total_pages changed, the current page can lie past totalPages.
C20_DriftedPastLast == drifted /\ totalPages > 0 /\ currentPage > totalPages

====
